---- MODULE Spec2Model ----
(***************************************************************************)
(* SBCK.ppp link functions (src/SBCK/ppp/__PPPLinkFunction.py).            *)
(*                                                                         *)
(* PPPLinkFunction wraps a pair of elementwise functions and applies them  *)
(* to a whole 2-D array or to selected columns of a copy of it.  The four  *)
(* subclasses fix the pair: Square, LogLin, Arctan, Logistic.              *)
(*                                                                         *)
(* Numbers.  An array element is a record [t, r, q]:                       *)
(*   t = "fin"   the rational r = <<num, den>>                             *)
(*   t = "ln"    r * ln(q),   q a rational > 1                             *)
(*   t = "pi"    r * pi                                                    *)
(*   t = "ipi"   r / pi                                                    *)
(*   t = "sqrt"  r * sqrt(q), q a positive rational that is no square      *)
(*   t = "nan", "pinf", "ninf"   the IEEE specials                         *)
(*   t = "opq"   a real outside this grid (only ever computed on the       *)
(*               branch of an np.where that is not selected)               *)
(* Arithmetic on these is exact, so a round trip through log/exp, sqrt or  *)
(* arctan/tan is computed, not assumed.                                    *)
(***************************************************************************)
EXTENDS Integers, Sequences, FiniteSets, TLC

\* Bounds of the model.
MaxCalls == 2
NRows == 1
NCols == 3

-----------------------------------------------------------------------------
(* Exact rationals <<n, d>>, d > 0, in lowest terms.                        *)

RECURSIVE GCD(_, _)
GCD(a, b) == IF b = 0 THEN a ELSE GCD(b, a % b)

IAbs(n) == IF n < 0 THEN -n ELSE n

Rat(n, d) ==
  LET g == GCD(IAbs(n), IAbs(d))
      s == IF d < 0 THEN -1 ELSE 1
  IN  <<(s * n) \div g, (s * d) \div g>>

RAdd(a, b) == Rat(a[1] * b[2] + b[1] * a[2], a[2] * b[2])
RNeg(a) == <<-a[1], a[2]>>
RMul(a, b) == Rat(a[1] * b[1], a[2] * b[2])
RDiv(a, b) == Rat(a[1] * b[2], a[2] * b[1])
RLt(a, b) == a[1] * b[2] < b[1] * a[2]
RSgn(a) == IF a[1] > 0 THEN 1 ELSE IF a[1] < 0 THEN -1 ELSE 0

RECURSIVE RPow(_, _)
RPow(a, k) ==
  IF k = 0 THEN <<1, 1>>
  ELSE IF k < 0 THEN RPow(RDiv(<<1, 1>>, a), -k)
  ELSE RMul(a, RPow(a, k - 1))

IsSquare(n) == \E k \in 0..n : k * k = n
ISqrt(n) == CHOOSE k \in 0..n : k * k = n

-----------------------------------------------------------------------------
(* Array elements.                                                          *)

Fin(r) == [t |-> "fin", r |-> r, q |-> <<1, 1>>]
Num(n, d) == Fin(Rat(n, d))
NaN == [t |-> "nan", r |-> <<0, 1>>, q |-> <<1, 1>>]
PInf == [t |-> "pinf", r |-> <<0, 1>>, q |-> <<1, 1>>]
NInf == [t |-> "ninf", r |-> <<0, 1>>, q |-> <<1, 1>>]
Opq == [t |-> "opq", r |-> <<0, 1>>, q |-> <<1, 1>>]
Zero == Num(0, 1)
One == Num(1, 1)
Two == Num(2, 1)
Pi == [t |-> "pi", r |-> <<1, 1>>, q |-> <<1, 1>>]

\* r * basis(t, q); a zero coefficient is the number 0
Mono(t, r, q) ==
  IF r[1] = 0 THEN Zero
  ELSE IF t = "fin" THEN Fin(r)
  ELSE [t |-> t, r |-> r, q |-> q]

IsMono(v) == v.t \in {"fin", "ln", "pi", "ipi", "sqrt"}
IsInf(v) == v.t \in {"pinf", "ninf"}
IsZero(v) == v.t = "fin" /\ v.r[1] = 0
SameBasis(x, y) == x.t = y.t /\ x.q = y.q

\* every basis element (1, ln q with q > 1, pi, 1/pi, sqrt q) is positive
Sgn(v) ==
  IF v.t = "pinf" THEN 1
  ELSE IF v.t = "ninf" THEN -1
  ELSE IF IsMono(v) THEN RSgn(v.r)
  ELSE 0

SignedInf(s) == IF s > 0 THEN PInf ELSE IF s < 0 THEN NInf ELSE NaN

Neg(v) ==
  IF v.t = "pinf" THEN NInf
  ELSE IF v.t = "ninf" THEN PInf
  ELSE IF IsMono(v) THEN [v EXCEPT !.r = RNeg(v.r)]
  ELSE v

Abs(v) == IF Sgn(v) < 0 THEN Neg(v) ELSE v

Add(x, y) ==
  IF x.t = "nan" \/ y.t = "nan" THEN NaN
  ELSE IF IsInf(x) THEN (IF IsInf(y) /\ y.t # x.t THEN NaN ELSE x)
  ELSE IF IsInf(y) THEN y
  ELSE IF x.t = "opq" \/ y.t = "opq" THEN Opq
  ELSE IF IsZero(x) THEN y
  ELSE IF IsZero(y) THEN x
  ELSE IF SameBasis(x, y) THEN Mono(x.t, RAdd(x.r, y.r), x.q)
  ELSE Opq

Sub(x, y) == Add(x, Neg(y))

Mul(x, y) ==
  IF x.t = "nan" \/ y.t = "nan" THEN NaN
  ELSE IF IsInf(x) \/ IsInf(y) THEN
         (IF x.t = "opq" \/ y.t = "opq" THEN Opq ELSE SignedInf(Sgn(x) * Sgn(y)))
  ELSE IF IsZero(x) \/ IsZero(y) THEN Zero
  ELSE IF x.t = "opq" \/ y.t = "opq" THEN Opq
  ELSE IF x.t = "fin" THEN Mono(y.t, RMul(x.r, y.r), y.q)
  ELSE IF y.t = "fin" THEN Mono(x.t, RMul(x.r, y.r), x.q)
  ELSE IF {x.t, y.t} = {"pi", "ipi"} THEN Fin(RMul(x.r, y.r))
  ELSE IF x.t = "sqrt" /\ SameBasis(x, y) THEN Fin(RMul(RMul(x.r, y.r), x.q))
  ELSE Opq

Div(x, y) ==
  IF x.t = "nan" \/ y.t = "nan" THEN NaN
  ELSE IF IsZero(y) THEN (IF x.t = "opq" THEN Opq ELSE SignedInf(Sgn(x)))
  ELSE IF IsInf(x) THEN
         (IF IsInf(y) THEN NaN
          ELSE IF y.t = "opq" THEN Opq
          ELSE SignedInf(Sgn(x) * Sgn(y)))
  ELSE IF IsInf(y) THEN (IF x.t = "opq" THEN Opq ELSE Zero)
  ELSE IF x.t = "opq" \/ y.t = "opq" THEN Opq
  ELSE IF y.t = "fin" THEN Mono(x.t, RDiv(x.r, y.r), x.q)
  ELSE IF SameBasis(x, y) THEN Fin(RDiv(x.r, y.r))
  ELSE IF x.t = "fin" /\ y.t = "pi" THEN Mono("ipi", RDiv(x.r, y.r), <<1, 1>>)
  ELSE IF x.t = "fin" /\ y.t = "ipi" THEN Mono("pi", RDiv(x.r, y.r), <<1, 1>>)
  ELSE Opq

\* IEEE comparison: anything compared with NaN is false
Lt(x, y) ==
  IF x.t = "nan" \/ y.t = "nan" \/ x.t = "opq" \/ y.t = "opq" THEN FALSE
  ELSE IF x.t = "pinf" \/ y.t = "ninf" THEN FALSE
  ELSE IF x.t = "ninf" \/ y.t = "pinf" THEN TRUE
  ELSE IF SameBasis(x, y) THEN RLt(x.r, y.r)
  ELSE Sgn(x) < Sgn(y)

Gt(x, y) == Lt(y, x)

\* the order of two elements is known to the grid
Comparable(x, y) ==
  \/ x.t = "nan" \/ y.t = "nan"
  \/ /\ x.t # "opq" /\ y.t # "opq"
     /\ IsInf(x) \/ IsInf(y) \/ SameBasis(x, y) \/ Sgn(x) # Sgn(y)

Where(c, a, b) == IF c THEN a ELSE b

Sqrt(v) ==
  IF v.t = "nan" \/ v.t = "ninf" THEN NaN
  ELSE IF v.t = "pinf" THEN PInf
  ELSE IF v.t = "fin" THEN
         (IF v.r[1] < 0 THEN NaN
          ELSE IF IsSquare(v.r[1]) /\ IsSquare(v.r[2])
                 THEN Fin(<<ISqrt(v.r[1]), ISqrt(v.r[2])>>)
          ELSE [t |-> "sqrt", r |-> <<1, 1>>, q |-> v.r])
  ELSE IF Sgn(v) < 0 THEN NaN
  ELSE Opq

Log(v) ==
  IF v.t = "nan" \/ v.t = "ninf" THEN NaN
  ELSE IF v.t = "pinf" THEN PInf
  ELSE IF v.t = "fin" THEN
         (IF v.r[1] < 0 THEN NaN
          ELSE IF v.r[1] = 0 THEN NInf
          ELSE IF v.r = <<1, 1>> THEN Zero
          ELSE IF RLt(<<1, 1>>, v.r) THEN [t |-> "ln", r |-> <<1, 1>>, q |-> v.r]
          ELSE [t |-> "ln", r |-> <<-1, 1>>, q |-> RDiv(<<1, 1>>, v.r)])
  ELSE IF Sgn(v) < 0 THEN NaN
  ELSE Opq

Exp(v) ==
  IF v.t = "nan" THEN NaN
  ELSE IF v.t = "pinf" THEN PInf
  ELSE IF v.t = "ninf" THEN Zero
  ELSE IF IsZero(v) THEN One
  ELSE IF v.t = "ln" /\ v.r[2] = 1 THEN Fin(RPow(v.q, v.r[1]))
  ELSE Opq

Arctan(v) ==
  IF v.t = "nan" THEN NaN
  ELSE IF v.t = "pinf" THEN Mono("pi", <<1, 2>>, <<1, 1>>)
  ELSE IF v.t = "ninf" THEN Mono("pi", <<-1, 2>>, <<1, 1>>)
  ELSE IF IsZero(v) THEN Zero
  ELSE IF v = One THEN Mono("pi", <<1, 4>>, <<1, 1>>)
  ELSE IF v = Neg(One) THEN Mono("pi", <<-1, 4>>, <<1, 1>>)
  ELSE Opq

Tan(v) ==
  IF v.t = "nan" \/ IsInf(v) THEN NaN
  ELSE IF IsZero(v) THEN Zero
  ELSE IF v.t = "pi" /\ v.r = <<1, 4>> THEN One
  ELSE IF v.t = "pi" /\ v.r = <<-1, 4>> THEN Neg(One)
  ELSE Opq

-----------------------------------------------------------------------------
(* The elementwise functions of the four links.  A link is the record of    *)
(* the attributes the constructors set:                                     *)
(*   [kind, ymin, ymax, s, tol, cols]                                       *)
(* cols is <<>> prefixed by a flag: none = TRUE is cols = None; otherwise   *)
(* idx is the index array np.array([cols], dtype = int).squeeze(), a        *)
(* single index being the one-element sequence.                             *)

\* PPPSquareLink: transform = lambda x : x**2
SquareTransform(x) == Mul(x, x)

\* mutant: the sign of a negative input is lost
SquareITransformNoSign(x) == Sqrt(Abs(x))

\* PPPSquareLink: itransform = lambda x : np.where(x > 0, sqrt(abs(x)), -sqrt(abs(x)))
SquareITransform(x) ==
  Where(Gt(x, Zero), Sqrt(Abs(x)), Neg(Sqrt(Abs(x))))

\* mutant: the logarithm is selected wherever x < 1, also for x <= 0
LogLinTransformUnmasked(x) ==
  Where(Lt(x, One), Log(Where(Gt(x, Zero), x, NaN)), Sub(x, One))

\* PPPLogLinLink: np.where((0 < x) & (x < 1), np.log(np.where(x > 0, x, np.nan)), x - 1)
LogLinTransform(x) ==
  Where(Lt(Zero, x) /\ Lt(x, One),
        Log(Where(Gt(x, Zero), x, NaN)),
        Sub(x, One))

\* PPPLogLinLink: np.where(x < 0, np.exp(x), x + 1)
LogLinITransform(x) ==
  Where(Lt(x, Zero), Exp(x), Add(x, One))

\* PPPArctanLink: f = (ymax - ymin) / np.pi
ArctanF(l) == Div(Sub(l.ymax, l.ymin), Pi)

\* PPPArctanLink: (np.pi / 2 + np.arctan(x/f)) * f + ymin
ArctanTransform(l, x) ==
  Add(Mul(Add(Div(Pi, Two), Arctan(Div(x, ArctanF(l)))), ArctanF(l)), l.ymin)

\* PPPArctanLink: f * np.tan((x - ymin) / f - np.pi / 2)
ArctanITransform(l, x) ==
  Mul(ArctanF(l), Tan(Sub(Div(Sub(x, l.ymin), ArctanF(l)), Div(Pi, Two))))

\* mutant: the input is clamped onto the bounds themselves, tol forgotten
LogisticClampNoTol(l, x) ==
  LET xt1 == Where(Lt(x, l.ymax), x, l.ymax)
  IN  Where(Gt(xt1, l.ymin), xt1, l.ymin)

\* PPPLogisticLink._transform, lines 252-253: the value the logit is applied to
LogisticClamp(l, x) ==
  LET xt1 == Where(Lt(x, l.ymax), x, Sub(l.ymax, l.tol))
  IN  Where(Gt(xt1, l.ymin), xt1, Add(l.ymin, l.tol))

\* mutant: the - 1 of the odds is dropped
LogitNoShift(l, xt) ==
  Div(Neg(Log(Div(Sub(l.ymax, l.ymin), Sub(xt, l.ymin)))), l.s)

\* PPPLogisticLink._transform, line 254
Logit(l, xt) ==
  Div(Neg(Log(Sub(Div(Sub(l.ymax, l.ymin), Sub(xt, l.ymin)), One))), l.s)

LogisticTransform(l, x) == Logit(l, LogisticClamp(l, x))

\* PPPLogisticLink._itransform, line 259: the logistic value
Logistic(l, y) ==
  Add(Div(Sub(l.ymax, l.ymin), Add(One, Exp(Mul(Neg(l.s), y)))), l.ymin)

\* mutant: the result is clipped to [ymin + tol, ymax - tol], not snapped to the bounds
LogisticSnapClip(l, x) ==
  LET x1 == Where(Lt(x, Sub(l.ymax, l.tol)), x, Sub(l.ymax, l.tol))
  IN  Where(Gt(x1, Add(l.ymin, l.tol)), x1, Add(l.ymin, l.tol))

\* PPPLogisticLink._itransform, lines 260-261
LogisticSnap(l, x) ==
  LET x1 == Where(Lt(x, Sub(l.ymax, l.tol)), x, l.ymax)
  IN  Where(Gt(x1, Add(l.ymin, l.tol)), x1, l.ymin)

LogisticITransform(l, y) == LogisticSnap(l, Logistic(l, y))

\* self._f_transform / self._f_itransform, as each constructor passes them
f_transform(l, x) ==
  CASE l.kind = "Square" -> SquareTransform(x)
    [] l.kind = "LogLin" -> LogLinTransform(x)
    [] l.kind = "Arctan" -> ArctanTransform(l, x)

f_itransform(l, x) ==
  CASE l.kind = "Square" -> SquareITransform(x)
    [] l.kind = "LogLin" -> LogLinITransform(x)
    [] l.kind = "Arctan" -> ArctanITransform(l, x)

\* self._transform(X): PPPLogisticLink overrides the method of PPPLinkFunction
ElemTransform(l, x) ==
  IF l.kind = "Logistic" THEN LogisticTransform(l, x) ELSE f_transform(l, x)

ElemITransform(l, x) ==
  IF l.kind = "Logistic" THEN LogisticITransform(l, x) ELSE f_itransform(l, x)

Elem(l, op, x) ==
  IF op = "transform" THEN ElemTransform(l, x) ELSE ElemITransform(l, x)

-----------------------------------------------------------------------------
(* Arrays: a 2-D array is a sequence of rows; numpy's column c is position  *)
(* c + 1 of a row.                                                          *)

NumCols(A) == Len(A[1])

MapArr(l, op, A) ==
  [i \in DOMAIN A |-> [j \in DOMAIN A[i] |-> Elem(l, op, A[i][j])]]

\* numpy accepts an index c of an axis of length d when -d <= c < d
IndexOK(c, d) == -d <= c /\ c < d

\* and counts a negative one from the end
WrapIdx(c, d) == IF c < 0 THEN c + d ELSE c

AllIndexOK(idx, d) == \A k \in DOMAIN idx : IndexOK(idx[k], d)

\* X[:, cols]
Take(A, idx) ==
  [i \in DOMAIN A |->
     [k \in DOMAIN idx |-> A[i][WrapIdx(idx[k], NumCols(A)) + 1]]]

\* mutant: the column indices are taken as counted from 1
PutOneBased(A, idx, S) ==
  [i \in DOMAIN A |->
     [j \in DOMAIN A[i] |->
        LET ks == {k \in DOMAIN idx : WrapIdx(idx[k], NumCols(A)) = j}
        IN  IF ks = {} THEN A[i][j]
            ELSE S[i][CHOOSE k \in ks : \A k2 \in ks : k2 <= k]]]

\* Xt[:, cols] = S  (of a repeated index the last assignment stays)
Put(A, idx, S) ==
  [i \in DOMAIN A |->
     [j \in DOMAIN A[i] |->
        LET ks == {k \in DOMAIN idx : WrapIdx(idx[k], NumCols(A)) + 1 = j}
        IN  IF ks = {} THEN A[i][j]
            ELSE S[i][CHOOSE k \in ks : \A k2 \in ks : k2 <= k]]]

\* the columns (positions) a call reads and rewrites
Touched(l, A) ==
  IF l.cols.none THEN DOMAIN A[1]
  ELSE IF AllIndexOK(l.cols.idx, NumCols(A))
         THEN {WrapIdx(l.cols.idx[k], NumCols(A)) + 1 : k \in DOMAIN l.cols.idx}
  ELSE {}

-----------------------------------------------------------------------------
(* The inputs the exact grid can follow: every comparison a function makes  *)
(* is decided and the selected result is on the grid.                       *)

Decided(l, op, x) ==
  CASE l.kind = "Square" -> op = "transform" \/ Comparable(x, Zero)
    [] l.kind = "LogLin" ->
         IF op = "transform" THEN Comparable(x, Zero) /\ Comparable(x, One)
         ELSE Comparable(x, Zero)
    [] l.kind = "Arctan" -> TRUE
    [] l.kind = "Logistic" ->
         IF op = "transform"
           THEN /\ Comparable(x, l.ymax)
                /\ Comparable(Where(Lt(x, l.ymax), x, Sub(l.ymax, l.tol)), l.ymin)
         ELSE /\ Comparable(Logistic(l, x), Sub(l.ymax, l.tol))
              /\ Comparable(Where(Lt(Logistic(l, x), Sub(l.ymax, l.tol)),
                                  Logistic(l, x), l.ymax),
                            Add(l.ymin, l.tol))

InDom(l, op, x) == Decided(l, op, x) /\ Elem(l, op, x).t # "opq"

InDomain(l, op, A) ==
  \A i \in DOMAIN A : \A j \in Touched(l, A) : InDom(l, op, A[i][j])

-----------------------------------------------------------------------------
(* Construction.                                                            *)

NoCols == [none |-> TRUE, idx |-> <<>>]
ColsOf(idx) == [none |-> FALSE, idx |-> idx]

\* the attributes PPPLinkFunction.__init__ and the subclass constructors set
MkLink(kind, ymin, ymax, s, tol, cols) ==
  [kind |-> kind, ymin |-> ymin, ymax |-> ymax, s |-> s, tol |-> tol, cols |-> cols]

SquareLink(cols) == MkLink("Square", Zero, Zero, One, Zero, cols)
LogLinLink(cols) == MkLink("LogLin", Zero, Zero, One, Zero, cols)
ArctanLink(ymin, ymax, cols) == MkLink("Arctan", ymin, ymax, One, Zero, cols)
LogisticLink(ymin, ymax, s, tol, cols) == MkLink("Logistic", ymin, ymax, s, tol, cols)

\* column sets: None, one index, a list, an index from the end, one past the end
ColSets ==
  {NoCols, ColsOf(<<1>>), ColsOf(<<0, 2>>), ColsOf(<<-1>>), ColsOf(<<NCols>>)}

\* bounds (ymin, ymax), the last two with ymin >= ymax
BoundSets ==
  {<<Zero, One>>, <<One, Num(3, 1)>>, <<One, Zero>>, <<Zero, Zero>>}

TolSet == {Num(1, 4), Num(1, 2), One}
SlopeSet == {One, Two}

\* links of the wrapper specification: every kind under every column set
WrapLinks ==
  {SquareLink(c) : c \in ColSets} \cup {LogLinLink(c) : c \in ColSets}
  \cup {ArctanLink(Zero, One, c) : c \in ColSets}
  \cup {LogisticLink(Zero, One, One, Num(1, 4), c) : c \in ColSets}

\* links of the elementwise specification: every kind under every parameter
ElemLinks ==
  {SquareLink(c) : c \in {NoCols, ColsOf(<<0>>), ColsOf(<<NCols>>)}}
  \cup {LogLinLink(NoCols)}
  \cup {ArctanLink(b[1], b[2], NoCols) : b \in BoundSets}
  \cup {LogisticLink(b[1], b[2], s, tol, NoCols) :
          b \in BoundSets, s \in SlopeSet, tol \in TolSet}

\* r * ln(q) / s
LnOver(r, q, s) == Div([t |-> "ln", r |-> r, q |-> q], s)

\* ymin + k/8 of the width of the interval (of 1 when the width is 0)
Frac(l, k) ==
  LET w == Sub(l.ymax, l.ymin)
  IN  Add(l.ymin, Mul(Num(k, 8), IF IsZero(w) THEN One ELSE w))

\* inputs of transform, per kind
DataVals(l) ==
  CASE l.kind = "Square" ->
         <<Num(2, 1), Num(-3, 1), Zero, Num(1, 2), Num(4, 1), Num(-1, 2), Num(3, 1)>>
    [] l.kind = "LogLin" ->
         <<Num(1, 2), Two, Zero, Num(-1, 1), Num(1, 4), One, Num(3, 2), Num(-1, 2)>>
    [] l.kind = "Arctan" ->
         IF IsZero(ArctanF(l)) THEN <<One, Zero, Neg(One), PInf>>
         ELSE <<ArctanF(l), Zero, Neg(ArctanF(l)), PInf>>
    [] l.kind = "Logistic" ->
         <<Frac(l, 2), Frac(l, 12), Frac(l, 0), Frac(l, 7), Frac(l, 3), Frac(l, -8),
           Frac(l, 8), Frac(l, 1), Frac(l, 6), Frac(l, 4), NaN>>

\* inputs of itransform, per kind
LinkVals(l) ==
  CASE l.kind = "Square" ->
         <<Num(4, 1), Num(-9, 1), Zero, Two, Num(9, 4), Num(-2, 1), One>>
    [] l.kind = "LogLin" ->
         <<LnOver(<<-1, 1>>, <<2, 1>>, One), One, Zero, LnOver(<<-2, 1>>, <<3, 1>>, One),
           Num(1, 2), LnOver(<<-1, 1>>, <<4, 3>>, One), Two, NInf>>
    [] l.kind = "Arctan" ->
         <<Frac(l, 2), Frac(l, 4), Frac(l, 6), Add(l.ymin, One)>>
    [] l.kind = "Logistic" ->
         <<LnOver(<<1, 1>>, <<3, 1>>, l.s), Zero, PInf, LnOver(<<-1, 1>>, <<3, 1>>, l.s),
           LnOver(<<1, 1>>, <<7, 1>>, l.s), NInf, LnOver(<<-1, 1>>, <<7, 1>>, l.s),
           LnOver(<<1, 1>>, <<5, 3>>, l.s), NaN>>

\* an NRows x NCols array running through vals from position seed
Pattern(vals, seed) ==
  [i \in 1..NRows |->
     [j \in 1..NCols |-> vals[((seed + (i - 1) * NCols + (j - 1)) % Len(vals)) + 1]]]

-----------------------------------------------------------------------------
(* State.                                                                   *)

VARIABLES
  link,     \* the link object: its attributes
  heap,     \* the arrays: buffer -> [live, data, op, arg, pub]
  frames,   \* one frame per thread: [pc, op, X, X0, Xt, tmp, ret]
  ncalls    \* calls made so far

vars == <<link, heap, frames, ncalls>>

Threads == 1..2
Bufs == 1..(2 + MaxCalls)

Free == [live |-> FALSE, data |-> <<>>, op |-> "none", arg |-> 0, pub |-> FALSE]
Idle == [pc |-> "idle", op |-> "none", X |-> 0, X0 |-> <<>>, Xt |-> 0, tmp |-> <<>>, ret |-> 0]

\* the caller's arrays before any call: buffer 1 in data space, buffer 2 in link space
InitWith(links, seeds) ==
  /\ link \in links
  /\ \E seed \in seeds :
       heap = [b \in Bufs |->
                 IF b = 1 THEN [live |-> TRUE, data |-> Pattern(DataVals(link), seed),
                                op |-> "input", arg |-> 0, pub |-> TRUE]
                 ELSE IF b = 2 THEN [live |-> TRUE, data |-> Pattern(LinkVals(link), seed),
                                     op |-> "input", arg |-> 0, pub |-> TRUE]
                 ELSE Free]
  /\ frames = [c \in Threads |-> Idle]
  /\ ncalls = 0

Init == InitWith(WrapLinks, {0, 3})

InitElem == InitWith(ElemLinks, 0..10)

\* mutant: every call works in one shared scratch array
AllocScratch(h) == CHOOSE b \in Bufs : \A b2 \in Bufs : b2 <= b

\* a fresh array
Alloc(h) == CHOOSE b \in Bufs : ~h[b].live /\ \A b2 \in Bufs : b2 < b => h[b2].live

\* mutant: Xt = X, no copy
CopyAlias(h, b) == b

\* X.copy()
CopyOf(h, b) == Alloc(h)

\* the arrays the caller holds that op can be called on
Callable(op) ==
  {b \in Bufs : heap[b].live /\ heap[b].pub /\ InDomain(link, op, heap[b].data)}

\* transform(X) / itransform(Xt) is called on an array the caller holds
Invoke(c) ==
  /\ frames[c].pc \in {"idle", "returned", "raised"}
  /\ ncalls < MaxCalls
  /\ \E op \in {"transform", "itransform"} : \E b \in Callable(op) :
       /\ frames' = [frames EXCEPT ![c] =
                       [pc |-> "called", op |-> op, X |-> b, X0 |-> heap[b].data,
                        Xt |-> 0, tmp |-> <<>>, ret |-> 0]]
  /\ ncalls' = ncalls + 1
  /\ UNCHANGED <<link, heap>>

\* lines 95-96, 105-106: cols is None, the function is applied to the whole array
Direct(c) ==
  /\ frames[c].pc = "called"
  /\ link.cols.none
  /\ LET b == Alloc(heap)
     IN  /\ heap' = [heap EXCEPT ![b] =
                       [live |-> TRUE,
                        data |-> MapArr(link, frames[c].op, heap[frames[c].X].data),
                        op |-> frames[c].op, arg |-> frames[c].X, pub |-> TRUE]]
         /\ frames' = [frames EXCEPT ![c].pc = "returned", ![c].ret = b]
  /\ UNCHANGED <<link, ncalls>>

\* lines 97, 107: Xt = X.copy()
Copy(c) ==
  /\ frames[c].pc = "called"
  /\ ~link.cols.none
  /\ LET b == CopyOf(heap, frames[c].X)
     IN  /\ heap' = [heap EXCEPT ![b] =
                       [live |-> TRUE, data |-> heap[frames[c].X].data,
                        op |-> frames[c].op, arg |-> frames[c].X, pub |-> FALSE]]
         /\ frames' = [frames EXCEPT ![c].pc = "copied", ![c].Xt = b]
  /\ UNCHANGED <<link, ncalls>>

\* lines 98, 108, right-hand side: self._transform(X[:,self._cols])
Compute(c) ==
  /\ frames[c].pc = "copied"
  /\ AllIndexOK(link.cols.idx, NumCols(heap[frames[c].X].data))
  /\ frames' = [frames EXCEPT
                  ![c].pc = "computed",
                  ![c].tmp = MapArr(link, frames[c].op,
                                    Take(heap[frames[c].X].data, link.cols.idx))]
  /\ UNCHANGED <<link, heap, ncalls>>

\* lines 98, 108: numpy raises IndexError; the copy is dropped
RaiseIndexError(c) ==
  /\ frames[c].pc = "copied"
  /\ ~AllIndexOK(link.cols.idx, NumCols(heap[frames[c].X].data))
  /\ heap' = [heap EXCEPT ![frames[c].Xt] = Free]
  /\ frames' = [frames EXCEPT ![c].pc = "raised", ![c].Xt = 0]
  /\ UNCHANGED <<link, ncalls>>

\* lines 98, 108, the assignment Xt[:,self._cols] = ...
Assign(c) ==
  /\ frames[c].pc = "computed"
  /\ heap' = [heap EXCEPT ![frames[c].Xt].data =
                  Put(heap[frames[c].Xt].data, link.cols.idx, frames[c].tmp)]
  /\ frames' = [frames EXCEPT ![c].pc = "assigned"]
  /\ UNCHANGED <<link, ncalls>>

\* lines 99, 109: return Xt
Return(c) ==
  /\ frames[c].pc = "assigned"
  /\ heap' = [heap EXCEPT ![frames[c].Xt].pub = TRUE]
  /\ frames' = [frames EXCEPT ![c].pc = "returned", ![c].ret = frames[c].Xt]
  /\ UNCHANGED <<link, ncalls>>

Step(c) ==
  \/ Invoke(c)
  \/ Direct(c)
  \/ Copy(c)
  \/ Compute(c)
  \/ RaiseIndexError(c)
  \/ Assign(c)
  \/ Return(c)

Next == \E c \in Threads : Step(c)

\* one caller, one call after the other
NextSeq == Step(1)

Spec == Init /\ [][Next]_vars

SpecElem == InitElem /\ [][NextSeq]_vars

-----------------------------------------------------------------------------
(* Vocabulary of the properties.                                            *)

Cells(A) == {<<i, j>> \in (DOMAIN A) \X (1..NumCols(A)) : TRUE}

Result(c) == heap[frames[c].ret].data

Finished(c, kind, op) ==
  frames[c].pc = "returned" /\ link.kind = kind /\ frames[c].op = op

\* x <= y
Le(x, y) == Lt(x, y) \/ (x = y /\ x.t # "nan")

ValidBounds(l) == Lt(l.ymin, l.ymax)

\* transform / itransform run alone, from call to return (lines 91-109)
RunAlone(l, op, A) ==
  IF l.cols.none THEN MapArr(l, op, A)
  ELSE Put(A, l.cols.idx, MapArr(l, op, Take(A, l.cols.idx)))

\* b2 = itransform(b1), b1 = transform(b0)
RoundTrips ==
  {t \in Bufs \X Bufs \X Bufs :
     /\ heap[t[3]].live /\ heap[t[3]].pub
     /\ heap[t[3]].op = "itransform" /\ heap[t[3]].arg = t[2]
     /\ heap[t[2]].op = "transform" /\ heap[t[2]].arg = t[1]}

-----------------------------------------------------------------------------
(* C1.  With a column set C of indices in 0..d-1, transform(X) and          *)
(* itransform(X) return an array whose columns outside C are those of X and *)
(* whose columns in C are the forward (inverse) function of those of X.     *)

C2_InputUnchanged ==
  \A c \in Threads :
    frames[c].pc # "idle" =>
      /\ heap[frames[c].X].live
      /\ heap[frames[c].X].data = frames[c].X0

C2_Witness ==
  \E c \in Threads :
    /\ frames[c].pc = "returned"
    /\ link.kind = "Logistic"
    /\ ~link.cols.none
    /\ Result(c) # frames[c].X0
    /\ heap[frames[c].X].data = frames[c].X0

(* C3.  A call whose column set holds an index outside 0..d-1 fails with an *)
(* index error and returns no array.                                        *)

C3_OutOfRangeRaises ==
  \A c \in Threads :
    (frames[c].pc = "returned" /\ ~link.cols.none) =>
      \A k \in DOMAIN link.cols.idx :
        link.cols.idx[k] \in 0..(NumCols(frames[c].X0) - 1)

(* C4.  An Arctan or Logistic link with ymin >= ymax never returns an       *)
(* array from transform or itransform.                                      *)

C4_InvalidBoundsFail ==
  \A c \in Threads :
    (link.kind \in {"Arctan", "Logistic"} /\ ~ValidBounds(link)) =>
      frames[c].pc # "returned"

(* C5, as claimed.  For ymin < ymax, tol > 0 and every input y that is no   *)
(* NaN: the inverse returns ymax when the logistic value is at or above     *)
(* ymax - tol, ymin when it is at or below ymin + tol, the logistic value   *)
(* otherwise, and always a value in [ymin, ymax].                           *)

C5_AsClaimed ==
  \A c \in Threads :
    (Finished(c, "Logistic", "itransform") /\ ValidBounds(link) /\ Lt(Zero, link.tol)) =>
      \A ij \in Cells(frames[c].X0) :
        LET y == frames[c].X0[ij[1]][ij[2]]
            v == Logistic(link, y)
            r == Result(c)[ij[1]][ij[2]]
        IN  y.t # "nan" =>
              /\ Le(link.ymin, r) /\ Le(r, link.ymax)
              /\ Le(Sub(link.ymax, link.tol), v) => r = link.ymax
              /\ Le(v, Add(link.ymin, link.tol)) => r = link.ymin
              /\ (~Le(Sub(link.ymax, link.tol), v) /\ ~Le(v, Add(link.ymin, link.tol)))
                   => r = v

(* C5, amended.  For ymin < ymax and tol > 0 every element the inverse      *)
(* returns lies in [ymin, ymax]: a logistic value not below ymax - tol is   *)
(* returned as ymax (as ymin when tol >= ymax - ymin); failing that, one    *)
(* not above ymin + tol is returned as ymin; any other is returned as is.   *)

C5_InverseSnap ==
  \A c \in Threads :
    (Finished(c, "Logistic", "itransform") /\ ValidBounds(link) /\ Lt(Zero, link.tol)) =>
      \A ij \in Cells(frames[c].X0) :
        LET v == Logistic(link, frames[c].X0[ij[1]][ij[2]])
            r == Result(c)[ij[1]][ij[2]]
        IN  /\ Le(link.ymin, r) /\ Le(r, link.ymax)
            /\ r = IF ~Lt(v, Sub(link.ymax, link.tol))
                     THEN (IF Lt(link.tol, Sub(link.ymax, link.ymin))
                             THEN link.ymax ELSE link.ymin)
                   ELSE IF Le(v, Add(link.ymin, link.tol)) THEN link.ymin
                   ELSE v

C5_Witness ==
  \E c \in Threads :
    /\ Finished(c, "Logistic", "itransform") /\ ValidBounds(link)
    /\ \E ij \in Cells(frames[c].X0) :
         LET v == Logistic(link, frames[c].X0[ij[1]][ij[2]])
         IN  /\ Le(Sub(link.ymax, link.tol), v) /\ Le(v, Add(link.ymin, link.tol))
             /\ Lt(v, link.ymax)
             /\ Result(c)[ij[1]][ij[2]] = link.ymax

(* C6, as claimed.  For ymin < ymax and 0 < tol < (ymax - ymin)/2 and every  *)
(* input x, the value the logit formula is applied to lies in               *)
(* [ymin + tol, ymax - tol].                                                *)

C6_AsClaimed ==
  \A c \in Threads :
    ( /\ Finished(c, "Logistic", "transform") /\ ValidBounds(link)
      /\ Lt(Zero, link.tol)
      /\ Lt(Mul(Two, link.tol), Sub(link.ymax, link.ymin)) )
    => \A ij \in Cells(frames[c].X0) :
         LET xt == LogisticClamp(link, frames[c].X0[ij[1]][ij[2]])
         IN  Le(Add(link.ymin, link.tol), xt) /\ Le(xt, Sub(link.ymax, link.tol))

(* C6, amended.  For ymin < ymax and 0 < tol < ymax - ymin the forward map  *)
(* replaces every x at or above ymax (and a NaN) by ymax - tol and every x  *)
(* at or below ymin by ymin + tol, and leaves every x strictly between ymin *)
(* and ymax as it is, also one within tol of a bound; the value the logit   *)
(* formula is applied to lies strictly between ymin and ymax, the result is *)
(* the formula at that value, a number, and no error is raised; transform   *)
(* of an x outside the bounds is transform of ymax - tol or of ymin + tol.  *)

C6_ForwardClamp ==
  \A c \in Threads :
    ( /\ link.kind = "Logistic" /\ frames[c].op = "transform"
      /\ frames[c].pc \in {"returned", "raised"}
      /\ ValidBounds(link)
      /\ Lt(Zero, link.tol) /\ Lt(link.tol, Sub(link.ymax, link.ymin)) )
    => /\ frames[c].pc = "returned"
       /\ \A ij \in Cells(frames[c].X0) :
            LET x == frames[c].X0[ij[1]][ij[2]]
                xt == LogisticClamp(link, x)
                r == Result(c)[ij[1]][ij[2]]
                hi == Sub(link.ymax, link.tol)
                lo == Add(link.ymin, link.tol)
            IN  /\ Lt(link.ymin, xt) /\ Lt(xt, link.ymax)
                /\ xt = IF ~Lt(x, link.ymax) THEN hi
                        ELSE IF ~Gt(x, link.ymin) THEN lo
                        ELSE x
                /\ r = Logit(link, xt)
                /\ r.t \in {"fin", "ln"}
                /\ ~Lt(x, link.ymax) => r = LogisticTransform(link, hi)
                /\ (Lt(x, link.ymax) /\ ~Gt(x, link.ymin))
                     => r = LogisticTransform(link, lo)

C6_Witness ==
  \E c \in Threads :
    /\ Finished(c, "Logistic", "transform") /\ ValidBounds(link)
    /\ Lt(Zero, link.tol) /\ Lt(link.tol, Sub(link.ymax, link.ymin))
    /\ \E ij \in Cells(frames[c].X0) :
         /\ Lt(Sub(link.ymax, link.tol), frames[c].X0[ij[1]][ij[2]])
         /\ Lt(frames[c].X0[ij[1]][ij[2]], link.ymax)
    /\ \E ij \in Cells(frames[c].X0) : Lt(link.ymax, frames[c].X0[ij[1]][ij[2]])

(* C7.  The Log-Linear forward result is log(x) for 0 < x < 1 and x - 1     *)
(* otherwise, and for a finite input it is never the NaN of the logarithm   *)
(* branch that was not taken.                                               *)

C7_LogLinBranches ==
  \A c \in Threads :
    Finished(c, "LogLin", "transform") =>
      \A ij \in Cells(frames[c].X0) :
        LET x == frames[c].X0[ij[1]][ij[2]]
            r == Result(c)[ij[1]][ij[2]]
        IN  x.t = "fin" =>
              /\ r = IF Lt(Zero, x) /\ Lt(x, One) THEN Log(x) ELSE Sub(x, One)
              /\ r.t # "nan"

C7_Witness ==
  \E c \in Threads :
    /\ Finished(c, "LogLin", "transform")
    /\ \E ij \in Cells(frames[c].X0) :
         /\ Lt(frames[c].X0[ij[1]][ij[2]], Zero)
         /\ Result(c)[ij[1]][ij[2]] = Sub(frames[c].X0[ij[1]][ij[2]], One)
    /\ \E ij \in Cells(frames[c].X0) :
         /\ frames[c].X0[ij[1]][ij[2]] = Zero
         /\ Result(c)[ij[1]][ij[2]] = Neg(One)
    /\ \E ij \in Cells(frames[c].X0) : Result(c)[ij[1]][ij[2]].t = "ln"

(* C8.  Calls on one link interleave freely: no step of a call changes the  *)
(* link's attributes, and under every interleaving a call returns the array *)
(* it returns when run alone on its input.                                  *)

C8_Interleaving ==
  /\ [](\A c \in Threads :
          frames[c].pc = "returned" =>
            Result(c) = RunAlone(link, frames[c].op, frames[c].X0))
  /\ [][link' = link]_vars

C8_Witness ==
  /\ frames[1].pc = "returned"
  /\ frames[2].pc = "assigned"
  /\ frames[1].Xt > frames[2].Xt
  /\ frames[1].X # frames[2].X
  /\ frames[1].op # frames[2].op

(* C9.  The Square inverse maps y >= 0 to sqrt(y) and y < 0 to -sqrt(|y|),  *)
(* and itransform(transform(x)) = x for every x >= 0, 0 included.           *)

C9_SquareInverse ==
  /\ \A c \in Threads :
       Finished(c, "Square", "itransform") =>
         \A i \in DOMAIN frames[c].X0 : \A j \in Touched(link, frames[c].X0) :
           LET y == frames[c].X0[i][j]
           IN  Result(c)[i][j] =
                 IF Le(Zero, y) THEN Sqrt(y) ELSE Neg(Sqrt(Neg(y)))
  /\ link.kind = "Square" =>
       \A t \in RoundTrips : \A ij \in Cells(heap[t[1]].data) :
         Le(Zero, heap[t[1]].data[ij[1]][ij[2]]) =>
           heap[t[3]].data[ij[1]][ij[2]] = heap[t[1]].data[ij[1]][ij[2]]

C9_Witness ==
  /\ link.kind = "Square" /\ link.cols.none
  /\ \E t \in RoundTrips :
       /\ \E ij \in Cells(heap[t[1]].data) :
            /\ heap[t[1]].data[ij[1]][ij[2]] = Zero
            /\ heap[t[3]].data[ij[1]][ij[2]] = Zero
       /\ \E ij \in Cells(heap[t[1]].data) :
            /\ Lt(Zero, heap[t[1]].data[ij[1]][ij[2]])
            /\ heap[t[2]].data[ij[1]][ij[2]] # heap[t[1]].data[ij[1]][ij[2]]
            /\ heap[t[3]].data[ij[1]][ij[2]] = heap[t[1]].data[ij[1]][ij[2]]

(* C10.  For the Logistic link with ymin < ymax and 0 < tol < (ymax-ymin)/2 *)
(* itransform(transform(x)) is ymax for x >= ymax - tol, ymin for           *)
(* x <= ymin + tol and x in between; it always lies in [ymin, ymax].        *)

C10_LogisticRoundTrip ==
  ( /\ link.kind = "Logistic" /\ ValidBounds(link)
    /\ Lt(Zero, link.tol)
    /\ Lt(Mul(Two, link.tol), Sub(link.ymax, link.ymin)) )
  => \A t \in RoundTrips : \A ij \in Cells(heap[t[1]].data) :
       LET x == heap[t[1]].data[ij[1]][ij[2]]
           z == heap[t[3]].data[ij[1]][ij[2]]
       IN  x.t # "nan" =>
             /\ Le(link.ymin, z) /\ Le(z, link.ymax)
             /\ z = IF Le(Sub(link.ymax, link.tol), x) THEN link.ymax
                    ELSE IF Le(x, Add(link.ymin, link.tol)) THEN link.ymin
                    ELSE x

C10_Witness ==
  /\ link.kind = "Logistic" /\ ValidBounds(link)
  /\ Lt(Mul(Two, link.tol), Sub(link.ymax, link.ymin))
  /\ \E t \in RoundTrips :
       /\ \E ij \in Cells(heap[t[1]].data) :
            LET x == heap[t[1]].data[ij[1]][ij[2]]
            IN  /\ Lt(Sub(link.ymax, link.tol), x) /\ Lt(x, link.ymax)
                /\ heap[t[3]].data[ij[1]][ij[2]] = link.ymax
       /\ \E ij \in Cells(heap[t[1]].data) :
            LET x == heap[t[1]].data[ij[1]][ij[2]]
            IN  /\ Lt(Add(link.ymin, link.tol), x) /\ Lt(x, Sub(link.ymax, link.tol))
                /\ heap[t[2]].data[ij[1]][ij[2]].t = "ln"
                /\ heap[t[3]].data[ij[1]][ij[2]] = x

====
